---------------------------- MODULE Spec2Model ----------------------------
(***************************************************************************)
(* Model of the Coderrr backend gateway (src/backend/main.py): the         *)
(* in-memory sliding-window rate limiter, ChatRequest validation, and the  *)
(* /chat handler with its provider call run on a worker thread under a    *)
(* timeout.                                                                *)
(*                                                                         *)
(* Time is counted in whole ticks of the wall clock (time.time()); the     *)
(* clock is taken to be non-decreasing.  Lengths that the source sets to   *)
(* thousands of characters are scaled to a few characters; each scaled     *)
(* constant keeps the name the source gives it.                            *)
(***************************************************************************)
EXTENDS Integers, Sequences, FiniteSets, TLC

\* ------------------------------------------------------------------------
\* Program constants (scaled) and bounds of the model
\* ------------------------------------------------------------------------

\* main.py:37  RATE_LIMIT_WINDOW = 60 (seconds); here in ticks.
RATE_LIMIT_WINDOW == 2

\* main.py:38  RATE_LIMIT_MAX_REQUESTS = 30; scaled.
RATE_LIMIT_MAX_REQUESTS == 2

\* Client addresses (request.client.host).
Clients == {"A", "B"}

\* SpecRL: the clock stops at MaxTimeRL, at most MaxCalls limiter calls are made.
MaxTimeRL == 3
MaxCalls == 5

\* main.py:34  MAX_PROMPT_LENGTH = 10000 characters; scaled.
MAX_PROMPT_LENGTH == 4

\* main.py:35  MAX_REQUEST_SIZE = 50000 bytes.
MAX_REQUEST_SIZE == 50000

\* main.py:36  LLM_TIMEOUT = 1200 (seconds); here in ticks.
LLM_TIMEOUT == 1

\* main.py:64  ConversationMessage.content max_length.
MAX_HISTORY_CONTENT == 5000

\* main.py:73  conversation_history max_items.
MAX_HISTORY_ITEMS == 20

\* main.py:71  max_tokens le.
MAX_TOKENS_LIMIT == 4000

\* SpecValidate: prompts of up to MaxPromptChars characters are tried.
MaxPromptChars == 6

\* Spec: MaxArrivals requests arrive, the clock stops at MaxTime.
MaxArrivals == 3
MaxTime == 2

\* The requests that are being handled at the same time.
ReqIds == {1, 2}

VARIABLES
    now,               \* the wall clock, time.time()
    rate_limit_store,  \* main.py:43: client -> list of admitted timestamps
    log,               \* history: client -> sequence of [t, ok], one per limiter call
    req,               \* the /chat requests being handled: id -> its state
    arrivals,          \* the number of /chat requests received so far
    vin,               \* SpecValidate: the fields handed to ChatRequest
    vout,              \* SpecValidate: what ChatRequest made of them
    tin,               \* the specifications of pure functions: the input drawn
    tout               \* the specifications of pure functions: the result

vars == <<now, rate_limit_store, log, req, arrivals, vin, vout, tin, tout>>

\* The variables of the specifications of pure functions.
pure == <<vin, vout, tin, tout>>

\* ------------------------------------------------------------------------
\* The rate limiter (main.py:149-168)
\* ------------------------------------------------------------------------

Prune_inclusive(ts, t) ==
    SelectSeq(ts, LAMBDA timestamp : t - timestamp <= RATE_LIMIT_WINDOW)

\* main.py:154-157: the timestamps still inside the window at time t.
Prune(ts, t) ==
    SelectSeq(ts, LAMBDA timestamp : t - timestamp < RATE_LIMIT_WINDOW)

check_rate_limit_off_by_one(store, ip, t) ==
    LET kept == Prune(store[ip], t) IN
    IF Len(kept) > RATE_LIMIT_MAX_REQUESTS
    THEN [allowed |-> FALSE, store |-> [store EXCEPT ![ip] = kept]]
    ELSE [allowed |-> TRUE,  store |-> [store EXCEPT ![ip] = Append(kept, t)]]

check_rate_limit_record_first(store, ip, t) ==
    LET kept == Prune(store[ip], t) IN
    IF Len(kept) >= RATE_LIMIT_MAX_REQUESTS
    THEN [allowed |-> FALSE, store |-> [store EXCEPT ![ip] = Append(kept, t)]]
    ELSE [allowed |-> TRUE,  store |-> [store EXCEPT ![ip] = Append(kept, t)]]

check_rate_limit_global(store, ip, t) ==
    LET kept == [c \in DOMAIN store |-> Prune(store[c], t)]
        total == LET RECURSIVE Sum(_)
                     Sum(S) == IF S = {} THEN 0
                               ELSE LET c == CHOOSE x \in S : TRUE
                                    IN Len(kept[c]) + Sum(S \ {c})
                 IN Sum(DOMAIN store)
    IN
    IF total >= RATE_LIMIT_MAX_REQUESTS
    THEN [allowed |-> FALSE, store |-> [store EXCEPT ![ip] = kept[ip]]]
    ELSE [allowed |-> TRUE,  store |-> [store EXCEPT ![ip] = Append(kept[ip], t)]]

check_rate_limit_fixed_window(store, ip, t) ==
    IF store[ip] # <<>> /\ t - store[ip][1] >= RATE_LIMIT_WINDOW
    THEN [allowed |-> TRUE, store |-> [store EXCEPT ![ip] = <<t>>]]
    ELSE IF Len(store[ip]) >= RATE_LIMIT_MAX_REQUESTS
    THEN [allowed |-> FALSE, store |-> store]
    ELSE [allowed |-> TRUE, store |-> [store EXCEPT ![ip] = Append(@, t)]]

\* main.py:149-168: the result of one call at time t and the store it leaves.
\* A client without a key in the dict reads as the empty list (store.get(ip, [])).
check_rate_limit(store, ip, t) ==
    LET kept == Prune(store[ip], t) IN
    IF Len(kept) >= RATE_LIMIT_MAX_REQUESTS
    THEN [allowed |-> FALSE, store |-> [store EXCEPT ![ip] = kept]]
    ELSE [allowed |-> TRUE,  store |-> [store EXCEPT ![ip] = Append(kept, t)]]

RECURSIVE SumLen(_, _)
SumLen(f, S) ==
    IF S = {} THEN 0
    ELSE LET c == CHOOSE x \in S : TRUE IN Len(f[c]) + SumLen(f, S \ {c})

TotalCalls == SumLen(log, Clients)

\* The limiter is called once for client ip at the current time.
RateLimitCall(ip) ==
    LET r == check_rate_limit(rate_limit_store, ip, now) IN
    /\ TotalCalls < MaxCalls
    /\ rate_limit_store' = r.store
    /\ log' = [log EXCEPT ![ip] = Append(@, [t |-> now, ok |-> r.allowed])]
    /\ UNCHANGED <<now, req, arrivals, pure>>

TickRL ==
    /\ now < MaxTimeRL
    /\ now' = now + 1
    /\ UNCHANGED <<rate_limit_store, log, req, arrivals, pure>>

\* ------------------------------------------------------------------------
\* ChatRequest validation (main.py:62-101, schemas.py:13-52)
\* ------------------------------------------------------------------------

\* Characters of a prompt: whitespace, a plain letter, and a letter in both
\* cases that the rejection phrase is made of.
Chars == {" ", "a", "b", "B"}

\* main.py:85-90: the rejection phrases, lower-case words separated by a
\* space; scaled to one phrase of three characters.
suspicious_patterns == { <<"b", " ", "b">> }

strip_once(s) ==
    LET a == IF s # <<>> /\ Head(s) = " " THEN Tail(s) ELSE s IN
    IF a # <<>> /\ a[Len(a)] = " " THEN SubSeq(a, 1, Len(a) - 1) ELSE a

\* str.strip(): the text between the first and the last non-blank character.
strip(s) ==
    LET idx == {i \in 1..Len(s) : s[i] # " "} IN
    IF idx = {} THEN <<>>
    ELSE SubSeq(s, CHOOSE i \in idx : \A j \in idx : i <= j,
                   CHOOSE i \in idx : \A j \in idx : i >= j)

\* str.lower()
lower(s) == [i \in 1..Len(s) |-> IF s[i] = "B" THEN "b" ELSE s[i]]

\* pattern in s
Contains(s, pattern) ==
    \E i \in 1..(Len(s) - Len(pattern) + 1) :
        SubSeq(s, i, i + Len(pattern) - 1) = pattern

Rejected == [ok |-> FALSE, prompt |-> <<>>]

\* main.py:75-97: the validator of the prompt field: trims, rejects a blank
\* prompt and a prompt holding a rejection phrase, returns the trimmed prompt.
validate_prompt(v) ==
    LET t == strip(v) IN
    IF t = <<>> THEN Rejected
    ELSE IF \E pattern \in suspicious_patterns : Contains(lower(t), pattern)
         THEN Rejected
         ELSE [ok |-> TRUE, prompt |-> t]

\* main.py:69: the prompt field: the length constraints of Field(...) are
\* applied to the value as received, and the validator runs on what passed.
prompt_field(p) ==
    IF Len(p) < 1 \/ Len(p) > MAX_PROMPT_LENGTH THEN Rejected
    ELSE validate_prompt(p)

\* An Optional number is <<>> (None or absent) or <<n>>.
InRange(opt, lo, hi) == opt = <<>> \/ (lo <= opt[1] /\ opt[1] <= hi)

\* main.py:62-64: ConversationMessage
ConversationMessageOk(m) ==
    /\ m.role \in {"user", "assistant"}
    /\ Len(m.content) >= 1
    /\ Len(m.content) <= MAX_HISTORY_CONTENT

\* main.py:73: conversation_history
HistoryOk(h) ==
    /\ Len(h) <= MAX_HISTORY_ITEMS
    /\ \A i \in 1..Len(h) : ConversationMessageOk(h[i])

\* main.py:68-101: ChatRequest(**fields): whether the fields validate, and the
\* request object they make (its prompt is the validator's return value).
ChatRequest(fields) ==
    LET p == prompt_field(fields.prompt) IN
    IF /\ p.ok
       /\ InRange(fields.temperature, 0, 2)
       /\ InRange(fields.max_tokens, 1, MAX_TOKENS_LIMIT)
       /\ InRange(fields.top_p, 0, 1)
       /\ HistoryOk(fields.conversation_history)
    THEN [ok |-> TRUE, prompt |-> p.prompt,
          conversation_history |-> fields.conversation_history]
    ELSE [ok |-> FALSE, prompt |-> <<>>, conversation_history |-> <<>>]

DefaultFields ==
    [prompt |-> <<"a">>, temperature |-> <<>>, max_tokens |-> <<>>,
     top_p |-> <<>>, conversation_history |-> <<>>]

NoResult == [done |-> FALSE, ok |-> FALSE, prompt |-> <<>>]

RECURSIVE SeqsUpTo(_, _)
SeqsUpTo(S, n) ==
    IF n = 0 THEN {<<>>}
    ELSE LET shorter == SeqsUpTo(S, n - 1) IN
         shorter \cup {Append(q, x) : q \in {z \in shorter : Len(z) = n - 1}, x \in S}

Prompts == SeqsUpTo(Chars, MaxPromptChars)

Repeat(x, n) == [i \in 1..n |-> x]

\* Histories at and just over each limit of ConversationMessage and of the list.
Histories ==
    { <<>>,
      <<[role |-> "user", content |-> <<"a">>]>>,
      <<[role |-> "assistant", content |-> <<"a">>],
        [role |-> "user", content |-> <<"b">>]>>,
      <<[role |-> "system", content |-> <<"a">>]>>,
      <<[role |-> "user", content |-> <<>>]>>,
      <<[role |-> "user", content |-> Repeat("a", MAX_HISTORY_CONTENT)]>>,
      <<[role |-> "user", content |-> Repeat("a", MAX_HISTORY_CONTENT + 1)]>>,
      Repeat([role |-> "user", content |-> <<"a">>], MAX_HISTORY_ITEMS),
      Repeat([role |-> "user", content |-> <<"a">>], MAX_HISTORY_ITEMS + 1) }

\* The inputs of SpecValidate: every prompt with the other fields defaulted,
\* and every combination of the other fields with a valid prompt.
ValidateInputs ==
    { [DefaultFields EXCEPT !.prompt = p] : p \in Prompts }
    \cup
    { [prompt |-> <<"a">>, temperature |-> te, max_tokens |-> mt, top_p |-> tp,
       conversation_history |-> h] :
         te \in {<<>>, <<-1>>, <<0>>, <<2>>, <<3>>},
         mt \in {<<>>, <<0>>, <<1>>, <<MAX_TOKENS_LIMIT>>, <<MAX_TOKENS_LIMIT + 1>>},
         tp \in {<<>>, <<-1>>, <<0>>, <<1>>, <<2>>},
         h \in Histories }

\* ChatRequest(**fields) is evaluated on the drawn input.
Validate ==
    /\ ~vout.done
    /\ vout' = LET c == ChatRequest(vin) IN
               [done |-> TRUE, ok |-> c.ok, prompt |-> c.prompt]
    /\ UNCHANGED <<now, rate_limit_store, log, req, arrivals, vin, tin, tout>>

\* ------------------------------------------------------------------------
\* The /chat endpoint (main.py:255-387)
\* ------------------------------------------------------------------------

\* An Optional value: None or the value itself.
None == <<>>
Some(x) == <<x>>

\* bool(s) of an Optional[str] whose value is a string: neither None nor "".
Truthy(opt) == opt # None /\ opt[1] # ""

\* An api key: the segments it begins with and its length in characters;
\* the empty string is Key(<<>>, 0).
Key(prefix, length) == [prefix |-> prefix, length |-> length]

\* A body with the extra keys provider, api_key and endpoint, which are not
\* fields of ChatRequest (main.py:68-74).
ProviderBody(provider_id, api_key) ==
    [size |-> 100, json |-> "object",
     fields |-> [DefaultFields EXCEPT !.prompt = <<"a">>],
     provider |-> provider_id, api_key |-> api_key, endpoint |-> None]

\* A request body: its size in bytes, whether it is JSON at all ("invalid"),
\* JSON that is no object ("non_object") or a JSON object, and the object's
\* fields.
Bodies ==
    << \* 1: valid: blanks around the prompt, two history entries
       [size |-> 100, json |-> "object",
        fields |-> [DefaultFields EXCEPT
                      !.prompt = <<" ", "a", "b">>,
                      !.conversation_history =
                          << [role |-> "user", content |-> <<"a">>],
                             [role |-> "assistant", content |-> <<"b">>] >>]],
       \* 2: oversized, valid
       [size |-> MAX_REQUEST_SIZE + 1, json |-> "object", fields |-> DefaultFields],
       \* 3: oversized, not JSON
       [size |-> MAX_REQUEST_SIZE + 1, json |-> "invalid", fields |-> DefaultFields],
       \* 4: oversized, JSON object with an empty prompt
       [size |-> MAX_REQUEST_SIZE + 1, json |-> "object",
        fields |-> [DefaultFields EXCEPT !.prompt = <<>>]],
       \* 5: small, JSON object with temperature out of range
       [size |-> 100, json |-> "object",
        fields |-> [DefaultFields EXCEPT !.temperature = <<3>>]],
       \* 6-8: small and valid, naming a provider, an api key and no endpoint
       ProviderBody("openai", Some(Key(<<"k">>, 3))),
       ProviderBody("anthropic", Some(Key(<<"k">>, 3))),
       ProviderBody("nosuch", Some(Key(<<"k">>, 3))) >>

\* The bodies that name a provider, and the others.
ProviderBodyIds == {b \in 1..Len(Bodies) : "provider" \in DOMAIN Bodies[b]}
BodyIds == (1..Len(Bodies)) \ ProviderBodyIds

\* providers/base.py:66-72: the registry: provider id -> adapter class
providers ==
    [openai |-> "OpenAIProvider", anthropic |-> "AnthropicProvider",
     openrouter |-> "OpenRouterProvider", ollama |-> "OllamaProvider",
     azure |-> "AzureProvider"]

\* str.startswith on a key: segs are the first segments of the key.
startswith(key, segs) ==
    Len(segs) <= Len(key.prefix) /\ SubSeq(key.prefix, 1, Len(segs)) = segs

\* validate_key of each adapter (openai_provider.py:37-39,
\* anthropic_provider.py:59-61, openrouter_provider.py:49-51,
\* azure_provider.py:65-71, ollama_provider.py:49-51)
validate_key(provider_id, key) ==
    CASE provider_id = "openai" -> startswith(key, <<"sk-">>) /\ key.length > 20
      [] provider_id = "anthropic" ->
            startswith(key, <<"sk-", "ant-">>) /\ key.length > 20
      [] provider_id = "openrouter" ->
            startswith(key, <<"sk-", "or-">>) /\ key.length > 20
      [] provider_id = "azure" ->
            \/ startswith(key, <<"ghp_">>) /\ key.length > 30
            \/ startswith(key, <<"github_pat_">>) /\ key.length > 30
      [] OTHER -> TRUE

\* ValueError raised by get_provider
ProviderValueError(error) ==
    [ok |-> FALSE, error |-> error, adapter |-> "none", api_key |-> None,
     endpoint |-> None]

\* bool(api_key): the key is neither None nor the empty string.
KeyGiven(api_key) == api_key # None /\ api_key[1].length > 0

get_provider_checks_format(provider_id, api_key, endpoint) ==
    IF provider_id \notin DOMAIN providers
    THEN ProviderValueError("Unknown provider")
    ELSE IF provider_id = "ollama"
    THEN [ok |-> TRUE, error |-> "", adapter |-> providers[provider_id],
          api_key |-> None, endpoint |-> endpoint]
    ELSE IF ~KeyGiven(api_key) \/ ~validate_key(provider_id, api_key[1])
    THEN ProviderValueError("API key required")
    ELSE [ok |-> TRUE, error |-> "", adapter |-> providers[provider_id],
          api_key |-> api_key, endpoint |-> endpoint]

\* providers/base.py:41-89: the adapter made for a provider id, an api key
\* and an endpoint (each None when absent); ok is FALSE where the code raises
\* ValueError.
get_provider(provider_id, api_key, endpoint) ==
    IF provider_id \notin DOMAIN providers
    THEN ProviderValueError("Unknown provider")
    ELSE IF provider_id = "ollama"
    THEN [ok |-> TRUE, error |-> "", adapter |-> providers[provider_id],
          api_key |-> None, endpoint |-> endpoint]
    ELSE IF ~KeyGiven(api_key)
    THEN ProviderValueError("API key required")
    ELSE [ok |-> TRUE, error |-> "", adapter |-> providers[provider_id],
          api_key |-> api_key, endpoint |-> endpoint]

\* The calls of get_provider: registered and unregistered ids, keys absent,
\* empty, of the format of some adapter and of none, with and without an
\* endpoint.
ProviderIdInputs ==
    {"openai", "anthropic", "openrouter", "ollama", "azure", "nosuch", "", "OpenAI"}
KeyInputs ==
    {None, Some(Key(<<>>, 0)), Some(Key(<<"k">>, 3)), Some(Key(<<"sk-">>, 10)),
     Some(Key(<<"sk-">>, 40)), Some(Key(<<"sk-", "ant-">>, 40)),
     Some(Key(<<"sk-", "or-">>, 40)), Some(Key(<<"ghp_">>, 40))}
EndpointInputs == {None, Some("http://e")}

NoProvider == [done |-> FALSE, result |-> ProviderValueError("")]

\* get_provider is called with the arguments drawn.
GetProvider ==
    /\ ~tout.done
    /\ tout' = [done |-> TRUE,
                result |-> get_provider(tin.provider_id, tin.api_key, tin.endpoint)]
    /\ UNCHANGED <<now, rate_limit_store, log, req, arrivals, vin, vout, tin>>

\* main.py:50-54: the one client of the service, made at start-up from the
\* environment: every call of the handler goes to it (main.py:313-314).
module_client == "ChatCompletionsClient"

\* main.py:171-239
SYSTEM_INSTRUCTIONS == <<"SYSTEM_INSTRUCTIONS">>

SystemMessage(content) == [role |-> "system", content |-> content]
UserMessage(content) == [role |-> "user", content |-> content]

\* main.py:304
user_message(prompt) ==
    <<"User request: ">> \o prompt
        \o <<"\n\nPlease output a JSON object with explanation and plan as described.">>

\* main.py:296-300: the message made of one history entry
HistoryMessage(hist_msg) ==
    IF hist_msg.role = "user"
    THEN UserMessage(<<"Previous user request: ">> \o hist_msg.content)
    ELSE UserMessage(<<"Previous assistant response summary: ">> \o hist_msg.content)

\* main.py:291-305: the messages list the handler builds
BuildMessages(chat_request) ==
    <<SystemMessage(SYSTEM_INSTRUCTIONS)>>
        \o [i \in 1..Len(chat_request.conversation_history) |->
               HistoryMessage(chat_request.conversation_history[i])]
        \o <<UserMessage(user_message(chat_request.prompt))>>

\* main.py:313-320: the messages argument of client.complete: a new list of
\* the system message and the current user message; the list built before
\* is not the one passed.
DispatchMessages(chat_request, messages) ==
    << SystemMessage(SYSTEM_INSTRUCTIONS),
       UserMessage(user_message(chat_request.prompt)) >>

\* main.py:256: the parameter raw_data: ChatRequest makes the framework parse
\* the body as JSON and validate it against ChatRequest before the handler
\* body runs; a body that fails is answered 422 and the handler is not run.
FrameworkAccepts(body) ==
    body.json = "object" /\ ChatRequest(body.fields).ok

NoRequest == [ok |-> FALSE, prompt |-> <<>>, conversation_history |-> <<>>]

Gate(store, checked, allowed, status, detail, chat_request) ==
    [store |-> store, checked |-> checked, allowed |-> allowed,
     status |-> status, detail |-> detail, chat_request |-> chat_request]

chat_gates_size_after_dispatch(store, client, body, t) ==
    IF ~FrameworkAccepts(body)
    THEN Gate(store, FALSE, FALSE, 422, "Unprocessable Entity", NoRequest)
    ELSE
    LET rl == check_rate_limit(store, client, t) IN
    IF ~rl.allowed
    THEN Gate(rl.store, TRUE, FALSE, 429, "Rate limit exceeded", NoRequest)
    ELSE IF body.json # "object" \/ ~ChatRequest(body.fields).ok
    THEN Gate(rl.store, TRUE, TRUE, 400, "Validation error", NoRequest)
    ELSE Gate(rl.store, TRUE, TRUE, 0, "", ChatRequest(body.fields))

\* main.py:256-289: what happens to a received request before any message is
\* built: the framework's validation of the body parameter, then in the
\* handler the rate limit, the size check, and the handler's own parse and
\* validation.  status 0 means the request goes on to be dispatched.
chat_gates(store, client, body, t) ==
    IF ~FrameworkAccepts(body)
    THEN Gate(store, FALSE, FALSE, 422, "Unprocessable Entity", NoRequest)
    ELSE
    LET rl == check_rate_limit(store, client, t) IN
    IF ~rl.allowed
    THEN Gate(rl.store, TRUE, FALSE, 429, "Rate limit exceeded", NoRequest)
    ELSE IF body.size > MAX_REQUEST_SIZE
    THEN Gate(rl.store, TRUE, TRUE, 413, "Request body too large", NoRequest)
    ELSE IF body.json = "invalid"
    THEN Gate(rl.store, TRUE, TRUE, 400, "Validation error", NoRequest)
    ELSE IF body.json # "object"
    THEN Gate(rl.store, TRUE, TRUE, 400, "Invalid request format", NoRequest)
    ELSE IF ~ChatRequest(body.fields).ok
    THEN Gate(rl.store, TRUE, TRUE, 400, "Validation error", NoRequest)
    ELSE Gate(rl.store, TRUE, TRUE, 0, "", ChatRequest(body.fields))

\* What the provider's reply can be, as far as the handler tells replies
\* apart (main.py:331-370).
ReplyKinds ==
    {"plan", "invalid_json", "schema_violation", "no_choices", "no_content",
     "not_object"}

\* The messages of the exceptions a failing provider call raises (network
\* failure, authentication failure).
ProviderErrors == {"network", "auth"}

\* An HTTPException raised inside the handler.
HTTPException(status, detail) ==
    [type |-> "HTTPException", status |-> status, detail |-> detail]

\* Any other exception; detail is its message, str(e).
Exception(msg) == [type |-> "Exception", status |-> 0, detail |-> msg]

GenericDetail == "An internal error occurred while processing your request"

outer_except_catch_all(e) == HTTPException(500, GenericDetail)

\* main.py:374-386: the handlers of the outer try: an HTTPException is raised
\* again as it is, anything else becomes the generic 500.
outer_except(e) ==
    IF e.type = "HTTPException" THEN e ELSE HTTPException(500, GenericDetail)

\* main.py:331-372: the outcome of the response pipeline: the value returned
\* or the exception raised inside the outer try.
Pipeline(reply) ==
    CASE reply = "plan" ->
            [type |-> "return", status |-> 200, detail |-> "ChatResponse"]
      [] reply = "no_choices" ->
            HTTPException(500, "Failed to process model response")
      [] reply = "invalid_json" ->
            HTTPException(500, "The AI returned invalid JSON. Please try again.")
      [] reply = "schema_violation" ->
            HTTPException(500, "The AI returned an invalid response. Please try again.")
      [] reply = "no_content" -> Exception("TypeError: len(None)")
      [] OTHER -> Exception("TypeError: ChatResponse(**parsed_data)")

Idle ==
    [pc |-> "idle", client |-> "-", body |-> 0, under |-> FALSE,
     checked |-> FALSE, allowed |-> FALSE,
     messages |-> <<>>, call |-> "none", sent |-> <<>>, reply |-> "none",
     deadline |-> 0, calls |-> 0, ends |-> <<>>, pipeline |-> 0,
     adapter |-> "none",
     status |-> 0, detail |-> "", responses |-> 0]

\* The request is answered: one HTTP response with this status and detail.
Respond(q, status, detail) ==
    [q EXCEPT !.pc = "done", !.status = status, !.detail = detail,
              !.responses = @ + 1, !.deadline = 0]

\* main.py:257, 374-386: exception e leaves the outer try of the handler; what
\* its except clauses raise is the response.
Raise(q, e) ==
    LET h == outer_except(e) IN Respond(q, h.status, h.detail)

on_timeout_swallowed(q) ==
    [q EXCEPT !.ends = Append(@, "TIMEOUT"), !.status = 504,
              !.detail = "Request timed out", !.responses = @ + 1,
              !.call = IF @ = "queued" THEN "cancelled" ELSE @]

\* main.py:324-329: wait_for gives up: the wait is abandoned, a call that no
\* worker has started is cancelled, a running one keeps its worker.
on_timeout(q) ==
    Raise([q EXCEPT !.ends = Append(@, "TIMEOUT"),
                    !.call = IF @ = "queued" THEN "cancelled" ELSE @],
          HTTPException(504, "Request timed out"))

\* main.py:312-322, 331-372: wait_for returns the response; the pipeline runs.
resume_with_result(q, reply) ==
    LET out == Pipeline(reply)
        q1 == [q EXCEPT !.ends = Append(@, "SUCCESS"), !.pipeline = @ + 1,
                        !.reply = reply]
    IN  IF out.type = "return"
        THEN Respond(q1, out.status, out.detail)
        ELSE Raise(q1, out)

\* main.py:312-322, 378-387: the call raised an exception whose message is
\* msg: wait_for raises it in the handler.
resume_with_error(q, msg) ==
    Raise([q EXCEPT !.ends = Append(@, "PROVIDER_ERROR"), !.reply = msg],
          Exception(msg))

call_on_loop_direct(q) == q.call = "running"

\* main.py:312-314: asyncio.to_thread hands the blocking client.complete to a
\* worker thread, so the call of request q never occupies the event-loop
\* thread, on which every handler runs.
call_on_loop(q) == FALSE

\* The event-loop thread is not inside a blocking call: handlers can run.
LoopFree == \A r \in ReqIds : ~call_on_loop(req[r])

\* Request id r is free: no request is being handled under it, and the call
\* of an earlier request that timed out has left its worker.
Free(r) ==
    /\ req[r].pc \in {"idle", "done"}
    /\ req[r].call \notin {"queued", "running"}

\* A request of client c with body b reaches the server and is handled under
\* the lowest free id.
Arrive(r, c, b) ==
    /\ arrivals < MaxArrivals
    /\ Free(r)
    /\ \A r2 \in ReqIds : r2 < r => ~Free(r2)
    /\ req' = [req EXCEPT ![r] = [Idle EXCEPT !.pc = "received", !.client = c,
                                               !.body = b]]
    /\ arrivals' = arrivals + 1
    /\ UNCHANGED <<now, rate_limit_store, log, pure>>

\* main.py:255-322: the body has been read; the framework validates it and
\* the handler runs up to its first suspension, the wait for the worker.
chat_begin(r) ==
    /\ req[r].pc = "received"
    /\ LoopFree
    /\ LET q == req[r]
           g == chat_gates(rate_limit_store, q.client, Bodies[q.body], now)
           q1 == [q EXCEPT
                    !.under = Len(Prune(rate_limit_store[q.client], now))
                                  < RATE_LIMIT_MAX_REQUESTS,
                    !.checked = g.checked, !.allowed = g.allowed]
       IN
       /\ rate_limit_store' = g.store
       /\ log' = IF g.checked
                 THEN [log EXCEPT ![q.client] =
                          Append(@, [t |-> now, ok |-> g.allowed])]
                 ELSE log
       /\ req' = [req EXCEPT ![r] =
                    IF g.status = 422
                    THEN Respond(q1, g.status, g.detail)
                    ELSE IF g.status # 0
                    THEN Raise(q1, HTTPException(g.status, g.detail))
                    ELSE [q1 EXCEPT
                            !.pc = "await",
                            !.messages = BuildMessages(g.chat_request),
                            !.sent = DispatchMessages(g.chat_request,
                                                      BuildMessages(g.chat_request)),
                            !.call = "queued",
                            !.adapter = module_client,
                            !.deadline = now + LLM_TIMEOUT]]
    /\ UNCHANGED <<now, arrivals, pure>>

\* main.py:313-314: a worker thread takes the call: client.complete is invoked.
WorkerStart(r) ==
    /\ req[r].call = "queued"
    /\ req' = [req EXCEPT ![r].call = "running", ![r].calls = @ + 1]
    /\ UNCHANGED <<now, rate_limit_store, log, arrivals, pure>>

\* The remote backend answers; the worker's call returns.
ProviderReturn(r) ==
    /\ req[r].call = "running"
    /\ req' = [req EXCEPT ![r].call = "returned"]
    /\ UNCHANGED <<now, rate_limit_store, log, arrivals, pure>>

\* The call fails (network, authentication): the worker's call raises.
ProviderRaise(r) ==
    /\ req[r].call = "running"
    /\ req' = [req EXCEPT ![r].call = "raised"]
    /\ UNCHANGED <<now, rate_limit_store, log, arrivals, pure>>

chat_resume_late(r, reply) ==
    /\ req[r].pc \in {"await", "done"}
    /\ LoopFree
    /\ req[r].call = "returned"
    /\ req' = [req EXCEPT ![r] = resume_with_result([@ EXCEPT !.call = "consumed"],
                                                     reply)]
    /\ UNCHANGED <<now, rate_limit_store, log, arrivals, pure>>

\* main.py:312-322, 331-372: the handler resumes with the response the call
\* returned, whose content is reply, and runs the response pipeline on it.
chat_resume(r, reply) ==
    /\ req[r].pc = "await"
    /\ LoopFree
    /\ req[r].call = "returned"
    /\ req' = [req EXCEPT ![r] = resume_with_result(@, reply)]
    /\ UNCHANGED <<now, rate_limit_store, log, arrivals, pure>>

\* main.py:312-322, 378-387: the handler resumes with the exception the call
\* raised, whose message is msg.
chat_fail(r, msg) ==
    /\ req[r].pc = "await"
    /\ LoopFree
    /\ req[r].call = "raised"
    /\ req' = [req EXCEPT ![r] = resume_with_error(@, msg)]
    /\ UNCHANGED <<now, rate_limit_store, log, arrivals, pure>>

\* main.py:321, 324-329: the timeout of wait_for elapses before the result.
Timeout(r) ==
    /\ req[r].pc = "await"
    /\ LoopFree
    /\ req[r].call \in {"queued", "running"}
    /\ now >= req[r].deadline
    /\ req' = [req EXCEPT ![r] = on_timeout(@)]
    /\ UNCHANGED <<now, rate_limit_store, log, arrivals, pure>>

\* The clock advances; a wait whose timeout has elapsed is served first.
Tick ==
    /\ now < MaxTime
    /\ \A r \in ReqIds : req[r].pc = "await" => now < req[r].deadline
    /\ now' = now + 1
    /\ UNCHANGED <<rate_limit_store, log, req, arrivals, pure>>

Init ==
    /\ now = 0
    /\ rate_limit_store = [c \in Clients |-> <<>>]
    /\ log = [c \in Clients |-> <<>>]
    /\ req = [r \in ReqIds |-> Idle]
    /\ arrivals = 0
    /\ vin = DefaultFields
    /\ vout = NoResult
    /\ tin = <<>>
    /\ tout = <<>>

InitValidate ==
    /\ now = 0
    /\ rate_limit_store = [c \in Clients |-> <<>>]
    /\ log = [c \in Clients |-> <<>>]
    /\ req = [r \in ReqIds |-> Idle]
    /\ arrivals = 0
    /\ vin \in ValidateInputs
    /\ vout = NoResult
    /\ tin = <<>>
    /\ tout = <<>>

NextValidate == Validate

SpecValidate == InitValidate /\ [][NextValidate]_vars

Next ==
    \/ Tick
    \/ \E r \in ReqIds :
          \/ \E c \in Clients, b \in BodyIds : Arrive(r, c, b)
          \/ chat_begin(r)
          \/ WorkerStart(r)
          \/ ProviderReturn(r)
          \/ ProviderRaise(r)
          \/ \E reply \in ReplyKinds : chat_resume(r, reply)
          \/ \E msg \in ProviderErrors : chat_fail(r, msg)
          \/ Timeout(r)

Spec == Init /\ [][Next]_vars

\* The service receiving the requests of one client that name a provider.
NextProvider ==
    \/ Tick
    \/ \E r \in ReqIds :
          \/ \E b \in ProviderBodyIds : Arrive(r, "A", b)
          \/ chat_begin(r)
          \/ WorkerStart(r)
          \/ ProviderReturn(r)
          \/ ProviderRaise(r)
          \/ \E reply \in ReplyKinds : chat_resume(r, reply)
          \/ \E msg \in ProviderErrors : chat_fail(r, msg)
          \/ Timeout(r)

SpecProvider == Init /\ [][NextProvider]_vars

\* ------------------------------------------------------------------------
\* The /health endpoint (main.py:390-397)
\* ------------------------------------------------------------------------

\* The values of GITHUB_TOKEN with which the service starts: the empty and
\* the missing token stop it at start-up (main.py:46-47).
Tokens == {"ghp_a", "ghp_b", "github_pat_c", "t", " ", "healthy_token"}

\* The values of the model name, GITHUB_MODEL (main.py:31).
ModelNames == {"openai/gpt-4o", "m"}

health_check_leaks(TOKEN, MODEL_NAME) ==
    [status |-> "healthy", model |-> TOKEN, token_configured |-> TOKEN # ""]

\* main.py:390-397: the response of /health in a service started with
\* TOKEN and MODEL_NAME
health_check(TOKEN, MODEL_NAME) ==
    [status |-> "healthy", model |-> MODEL_NAME, token_configured |-> TOKEN # ""]

NoHealth ==
    [done |-> FALSE, first |-> health_check("", ""), second |-> health_check("", "")]

\* /health is asked of two services that differ at most in their token.
Health ==
    /\ ~tout.done
    /\ tout' = [done |-> TRUE,
                first |-> health_check(tin.first, tin.model),
                second |-> health_check(tin.second, tin.model)]
    /\ UNCHANGED <<now, rate_limit_store, log, req, arrivals, vin, vout, tin>>

InitHealth ==
    /\ now = 0
    /\ rate_limit_store = [c \in Clients |-> <<>>]
    /\ log = [c \in Clients |-> <<>>]
    /\ req = [r \in ReqIds |-> Idle]
    /\ arrivals = 0
    /\ vin = DefaultFields
    /\ vout = NoResult
    /\ tin \in [first : Tokens, second : Tokens, model : ModelNames]
    /\ tout = NoHealth

NextHealth == Health

SpecHealth == InitHealth /\ [][NextHealth]_vars

\* ------------------------------------------------------------------------
\* The Anthropic adapter (providers/anthropic_provider.py:20-57)
\* ------------------------------------------------------------------------

MaxMessages == 3

\* The messages handed to the adapter: dicts with a role and a content.
MessageInputs ==
    SeqsUpTo([role : {"system", "user", "assistant"}, content : {"", "a", "b"}],
             MaxMessages)

RECURSIVE split_messages_inline(_, _, _)
split_messages_inline(messages, system_content, chat_messages) ==
    IF messages = <<>>
    THEN [system_content |-> system_content, chat_messages |-> chat_messages]
    ELSE LET msg == Head(messages) IN
         split_messages_inline(
            Tail(messages),
            IF msg.role = "system" THEN Some(msg.content) ELSE system_content,
            Append(chat_messages, [role |-> msg.role, content |-> msg.content]))

\* anthropic_provider.py:30-40: the loop over the messages: a system message
\* sets system_content, any other message is appended to chat_messages.
RECURSIVE split_messages(_, _, _)
split_messages(messages, system_content, chat_messages) ==
    IF messages = <<>>
    THEN [system_content |-> system_content, chat_messages |-> chat_messages]
    ELSE LET msg == Head(messages) IN
         IF msg.role = "system"
         THEN split_messages(Tail(messages), Some(msg.content), chat_messages)
         ELSE split_messages(Tail(messages), system_content,
                             Append(chat_messages,
                                    [role |-> msg.role, content |-> msg.content]))

\* anthropic_provider.py:20-56: the request AnthropicProvider.chat sends: the
\* messages array and the system field, None when the request has none
\* (model, max_tokens and temperature are passed on as given).
anthropic_request(messages) ==
    LET split == split_messages(messages, None, <<>>) IN
    [messages |-> split.chat_messages,
     system |-> IF Truthy(split.system_content) THEN split.system_content
                ELSE None]

NoAnthropic == [done |-> FALSE, messages |-> <<>>, system |-> None]

\* AnthropicProvider.chat is called with the messages drawn.
AnthropicChat ==
    /\ ~tout.done
    /\ LET request_kwargs == anthropic_request(tin) IN
       tout' = [done |-> TRUE, messages |-> request_kwargs.messages,
                system |-> request_kwargs.system]
    /\ UNCHANGED <<now, rate_limit_store, log, req, arrivals, vin, vout, tin>>

InitAnthropic ==
    /\ now = 0
    /\ rate_limit_store = [c \in Clients |-> <<>>]
    /\ log = [c \in Clients |-> <<>>]
    /\ req = [r \in ReqIds |-> Idle]
    /\ arrivals = 0
    /\ vin = DefaultFields
    /\ vout = NoResult
    /\ tin \in MessageInputs
    /\ tout = NoAnthropic

NextAnthropic == AnthropicChat

SpecAnthropic == InitAnthropic /\ [][NextAnthropic]_vars

InitRegistry ==
    /\ now = 0
    /\ rate_limit_store = [c \in Clients |-> <<>>]
    /\ log = [c \in Clients |-> <<>>]
    /\ req = [r \in ReqIds |-> Idle]
    /\ arrivals = 0
    /\ vin = DefaultFields
    /\ vout = NoResult
    /\ tin \in [provider_id : ProviderIdInputs, api_key : KeyInputs,
                 endpoint : EndpointInputs]
    /\ tout = NoProvider

NextRegistry == GetProvider

SpecRegistry == InitRegistry /\ [][NextRegistry]_vars

NextRL == TickRL \/ \E ip \in Clients : RateLimitCall(ip)

SpecRL == Init /\ [][NextRL]_vars

\* ------------------------------------------------------------------------
\* The response pipeline on the text of the reply (main.py:331-372)
\* ------------------------------------------------------------------------

SetMin(S) == CHOOSE x \in S : \A y \in S : x <= y
SetMax(S) == CHOOSE x \in S : \A y \in S : x >= y

\* The texts of replies are built from these pieces: a run of three
\* backticks, one backtick, the tag json, a blank and any other character.
\* "#" stands for the backtick and the one character "j" for the four of the
\* tag.
MaxPieces == 6
Pieces == {<<"#", "#", "#">>, <<"#">>, <<"j">>, <<" ">>, <<"x">>}

RECURSIVE Flatten(_)
Flatten(ps) == IF ps = <<>> THEN <<>> ELSE Head(ps) \o Flatten(Tail(ps))

Texts == {Flatten(ps) : ps \in SeqsUpTo(Pieces, MaxPieces)}

\* The three backticks of the pattern match at position i of text.
FenceAt(text, i) ==
    /\ i >= 1
    /\ i + 2 <= Len(text)
    /\ \A k \in i..(i + 2) : text[k] = "#"

\* The number of whitespace characters of text from position p on: the most
\* that the whitespace of the pattern can take there.
WsRun(text, p) ==
    LET other == {k \in p..Len(text) : text[k] # " "} IN
    IF other = {} THEN IF p > Len(text) THEN 0 ELSE Len(text) - p + 1
    ELSE SetMin(other) - p

\* The positions e at which the rest of the pattern (whitespace, any amount,
\* then three backticks) matches: the
\* group that starts at p may end just before any of them.
Ends(text, p) ==
    {e \in p..(Len(text) + 1) :
        \E w \in 0..WsRun(text, e) : FenceAt(text, e + w)}

GroupEnd_greedy(text, p) == SetMax(Ends(text, p))

\* The group is lazy: it ends at the first position that lets the
\* rest of the pattern match.
GroupEnd(text, p) == SetMin(Ends(text, p))

\* The positions where the group can start for a match that starts at i, in
\* the order the matcher tries them: the optional tag json taken before
\* skipped, and for each the whitespace from its longest to its shortest.
GroupStarts(text, i) ==
    LET a == i + 3
        tagged == a <= Len(text) /\ text[a] = "j"
        with_tag == IF tagged
                    THEN [k \in 1..(WsRun(text, a + 1) + 1) |->
                             a + 1 + WsRun(text, a + 1) - (k - 1)]
                    ELSE <<>>
        without == [k \in 1..(WsRun(text, a) + 1) |->
                       a + WsRun(text, a) - (k - 1)]
    IN  with_tag \o without

NoMatch == [found |-> FALSE, group |-> <<>>]

\* The match of the pattern that starts at position i, if there is one.
MatchAt(text, i) ==
    IF ~FenceAt(text, i) THEN NoMatch
    ELSE LET starts == GroupStarts(text, i)
             ok == {k \in DOMAIN starts : Ends(text, starts[k]) # {}}
         IN  IF ok = {} THEN NoMatch
             ELSE LET p == starts[SetMin(ok)] IN
                  [found |-> TRUE,
                   group |-> SubSeq(text, p, GroupEnd(text, p) - 1)]

\* main.py:343: re.search of the pattern (three backticks, optional json,
\* whitespace, the lazy group, whitespace, three backticks) in text: the
\* leftmost match.
re_search(text) ==
    LET hits == {i \in 1..Len(text) : MatchAt(text, i).found} IN
    IF hits = {} THEN NoMatch ELSE MatchAt(text, SetMin(hits))

\* main.py:342-347: the JSON string taken from the text of the reply
extract(text) ==
    LET json_match == re_search(text) IN
    IF json_match.found THEN json_match.group ELSE strip(text)

NoExtract == [done |-> FALSE, json_str |-> <<>>, again |-> <<>>]

\* The extraction applied to the text, and once more to its result.
Extract ==
    /\ ~tout.done
    /\ tout' = [done |-> TRUE, json_str |-> extract(tin),
                again |-> extract(extract(tin))]
    /\ UNCHANGED <<now, rate_limit_store, log, req, arrivals, vin, vout, tin>>

InitExtract ==
    /\ now = 0
    /\ rate_limit_store = [c \in Clients |-> <<>>]
    /\ log = [c \in Clients |-> <<>>]
    /\ req = [r \in ReqIds |-> Idle]
    /\ arrivals = 0
    /\ vin = DefaultFields
    /\ vout = NoResult
    /\ tin \in Texts
    /\ tout = NoExtract

NextExtract == Extract

SpecExtract == InitExtract /\ [][NextExtract]_vars

\* ------------------------------------------------------------------------
\* Validation of the response (main.py:104-130)
\* ------------------------------------------------------------------------

\* A path string: whether it begins with "/" and its components, so that ""
\* is PathStr(FALSE, <<>>) and "/" is PathStr(TRUE, <<>>).
PathStr(abs, parts) == [abs |-> abs, parts |-> parts]

\* bool(p.path): the path is neither None nor "".
TruthyPath(opt) == opt # None /\ (opt[1].abs \/ opt[1].parts # <<>>)

\* os.path.isabs
isabs(path) == path.abs

\* os.getcwd(): the working directory of the service, /w
cwd == <<"w">>

\* os.path.normpath on the components of an absolute path: "." dropped and
\* ".." taking back the component before it, none at the root.
RECURSIVE Resolve(_, _)
Resolve(done, parts) ==
    IF parts = <<>> THEN done
    ELSE IF Head(parts) = "." THEN Resolve(done, Tail(parts))
    ELSE IF Head(parts) = ".."
    THEN Resolve(IF done = <<>> THEN <<>> ELSE SubSeq(done, 1, Len(done) - 1),
                 Tail(parts))
    ELSE Resolve(Append(done, Head(parts)), Tail(parts))

\* The length of the longest common prefix of two sequences.
CommonPrefix(a, b) ==
    SetMax({n \in 0..Len(a) :
               n <= Len(b) /\ \A k \in 1..n : a[k] = b[k]})

relpath_unchanged(path) == path

\* os.path.relpath(path) of an absolute path: from the working directory up
\* to the common ancestor, then down to the path.
relpath(path) ==
    LET start_list == cwd
        path_list == Resolve(<<>>, path.parts)
        i == CommonPrefix(start_list, path_list)
        rel_list == [k \in 1..(Len(start_list) - i) |-> ".."]
                        \o SubSeq(path_list, i + 1, Len(path_list))
    IN  PathStr(FALSE, IF rel_list = <<>> THEN <<".">> ELSE rel_list)

\* main.py:108-116: a step of the plan as the Plan model holds it.
Plan(action, path, content, old_content, new_content, old_path, new_path) ==
    [action |-> action, path |-> path, content |-> content,
     old_content |-> old_content, new_content |-> new_content,
     old_path |-> old_path, new_path |-> new_path,
     command |-> None, summary |-> "summary"]

Violates_none_only(p) ==
    \/ p.action \in {"create_file", "update_file"} /\ p.content = None
    \/ /\ p.action = "patch_file"
       /\ p.old_content = None
       /\ p.new_content = None

\* main.py:123-126: the checks of check_fields that raise ValueError on step p
Violates(p) ==
    \/ p.action \in {"create_file", "update_file"} /\ ~Truthy(p.content)
    \/ /\ p.action = "patch_file"
       /\ ~(Truthy(p.old_content) \/ Truthy(p.new_content))

Relativize_all_paths(p) ==
    LET rel(path) == IF TruthyPath(path) /\ isabs(path[1])
                     THEN Some(relpath(path[1])) ELSE path
    IN  [p EXCEPT !.path = rel(@), !.old_path = rel(@), !.new_path = rel(@)]

\* main.py:127-128: the path of step p made relative when it is absolute
Relativize(p) ==
    IF TruthyPath(p.path) /\ isabs(p.path[1])
    THEN [p EXCEPT !.path = Some(relpath(p.path[1]))]
    ELSE p

InvalidResponse == [ok |-> FALSE, explanation |-> "", plan |-> <<>>]

\* main.py:121-130: the validator run on the model once its fields are set:
\* the first violating step raises, otherwise every step has had its path
\* rewritten.
check_fields(self) ==
    IF \E i \in 1..Len(self.plan) : Violates(self.plan[i])
    THEN InvalidResponse
    ELSE [ok |-> TRUE, explanation |-> self.explanation,
          plan |-> [i \in 1..Len(self.plan) |-> Relativize(self.plan[i])]]

\* The contents, the paths and the steps that plans are drawn from.
Contents == {None, Some(""), Some("c")}
Paths ==
    {None, Some(PathStr(FALSE, <<>>)), Some(PathStr(FALSE, <<"a">>)),
     Some(PathStr(FALSE, <<"..", "a">>)),
     Some(PathStr(TRUE, <<>>)), Some(PathStr(TRUE, <<"w">>)),
     Some(PathStr(TRUE, <<"w", "a">>)), Some(PathStr(TRUE, <<"a", "w">>)),
     Some(PathStr(TRUE, <<"w", "..", "a">>))}
RenamePaths == {None, Some(PathStr(FALSE, <<"a">>)), Some(PathStr(TRUE, <<"w", "a">>))}

Steps ==
    {Plan(a, Some(PathStr(FALSE, <<"a">>)), c, None, None, None, None) :
        a \in {"create_file", "update_file", "delete_file"}, c \in Contents}
    \cup {Plan("patch_file", Some(PathStr(FALSE, <<"a">>)), None, o, n, None, None) :
             o \in Contents, n \in Contents}
    \cup {Plan("rename_dir", None, None, None, None, o, n) :
             o \in RenamePaths, n \in RenamePaths}
    \cup {Plan("read_file", p, None, None, None, None, None) : p \in Paths}
    \cup {Plan("create_file", p, Some("c"), None, None, None, None) : p \in Paths}
    \cup {[Plan("run_command", None, None, None, None, None, None)
              EXCEPT !.command = Some("cmd"), !.summary = "run"]}

MaxSteps == 2
Plans == SeqsUpTo(Steps, MaxSteps)

\* main.py:372: model_dump(): the response as a dict under the names of the
\* fields of the models.
model_dump(self) == [explanation |-> self.explanation, plan |-> self.plan]

dump_by_name(p) == p

\* main.py:111-114, 255: a step serialized for the wire: response_model makes
\* the framework serialize by alias, so the four aliased fields go out under
\* oldContent, newContent, oldPath and newPath.
dump_by_alias(p) ==
    [action |-> p.action, path |-> p.path, content |-> p.content,
     oldContent |-> p.old_content, newContent |-> p.new_content,
     oldPath |-> p.old_path, newPath |-> p.new_path,
     command |-> p.command, summary |-> p.summary]

\* main.py:106, 111-114: the value of a field of Plan in a dict d of a step:
\* the one under the alias, or with populate_by_name the one under the name
\* of the field, or the default None.
FieldOf(d, name, alias) ==
    IF alias \in DOMAIN d THEN d[alias]
    ELSE IF name \in DOMAIN d THEN d[name]
    ELSE None

\* main.py:105-116: Plan(**d) for a dict d that holds action and summary
PlanFromDict(d) ==
    [action |-> d.action,
     path |-> FieldOf(d, "path", "path"),
     content |-> FieldOf(d, "content", "content"),
     old_content |-> FieldOf(d, "old_content", "oldContent"),
     new_content |-> FieldOf(d, "new_content", "newContent"),
     old_path |-> FieldOf(d, "old_path", "oldPath"),
     new_path |-> FieldOf(d, "new_path", "newPath"),
     command |-> FieldOf(d, "command", "command"),
     summary |-> d.summary]

\* main.py:104-130: ChatResponse(**d) for a dict d whose plan is a list of
\* step dicts: the fields are set, then check_fields runs.
ChatResponseFromDict(d) ==
    check_fields([explanation |-> d.explanation,
                  plan |-> [i \in 1..Len(d.plan) |-> PlanFromDict(d.plan[i])]])

NoWire == [ok |-> FALSE, explanation |-> "", plan |-> <<>>]

\* main.py:255, 372: what goes on the wire for the dict the handler returns:
\* the framework validates it against response_model and serializes the
\* result by alias.
serialize_response(content) ==
    LET value == ChatResponseFromDict(content) IN
    IF ~value.ok THEN NoWire
    ELSE [ok |-> TRUE, explanation |-> value.explanation,
          plan |-> [i \in 1..Len(value.plan) |-> dump_by_alias(value.plan[i])]]

NoResponse ==
    [done |-> FALSE, ok |-> FALSE, plan |-> <<>>, wire |-> NoWire,
     back |-> InvalidResponse]

\* ChatResponse is built from parsed data whose fields are well-typed; a
\* valid response is returned and serialized, and what went on the wire is
\* parsed and validated once more.
ValidateResponse ==
    /\ ~tout.done
    /\ LET validated_response == check_fields(tin)
           wire == IF validated_response.ok
                   THEN serialize_response(model_dump(validated_response))
                   ELSE NoWire
       IN
       tout' = [done |-> TRUE, ok |-> validated_response.ok,
                plan |-> validated_response.plan,
                wire |-> wire,
                back |-> IF wire.ok THEN ChatResponseFromDict(wire)
                         ELSE InvalidResponse]
    /\ UNCHANGED <<now, rate_limit_store, log, req, arrivals, vin, vout, tin>>

InitResponse ==
    /\ now = 0
    /\ rate_limit_store = [c \in Clients |-> <<>>]
    /\ log = [c \in Clients |-> <<>>]
    /\ req = [r \in ReqIds |-> Idle]
    /\ arrivals = 0
    /\ vin = DefaultFields
    /\ vout = NoResult
    /\ tin \in {[explanation |-> "e", plan |-> plan] : plan \in Plans}
    /\ tout = NoResponse

NextResponse == ValidateResponse

SpecResponse == InitResponse /\ [][NextResponse]_vars

\* ------------------------------------------------------------------------
\* Parsing of the extracted text (main.py:349-370)
\* ------------------------------------------------------------------------

\* The extracted text as a sequence of tokens: punctuation, the strings
\* "explanation", "plan" and "s", the number 1, null, two tokens that each stand
\* for the text of a whole step object (STEP_OK: a create_file step with
\* content; STEP_BAD: the same step with empty content), and "?" for
\* anything that is no JSON token.
StringTokens == {"explanation", "plan", "s"}
StepTokens == {"STEP_OK", "STEP_BAD"}

Value(kind, str, items) == [kind |-> kind, str |-> str, items |-> items]

NoParse == [ok |-> FALSE, next |-> 0, val |-> Value("none", "", <<>>)]

Parsed(next, val) == [ok |-> TRUE, next |-> next, val |-> val]

after_comma_closes_lenient(tok, closer) == tok = closer

\* json/decoder.py, used by main.py:350: after a comma the decoder wants the
\* next element or key; the closing bracket is not taken there.
after_comma_closes(tok, closer) == FALSE

RECURSIVE ParseValue(_, _), ParseElements(_, _, _), ParseMembers(_, _, _)

\* The value that begins at token i.
ParseValue(toks, i) ==
    IF i > Len(toks) THEN NoParse
    ELSE LET tok == toks[i] IN
    IF tok \in StringTokens THEN Parsed(i + 1, Value("str", tok, <<>>))
    ELSE IF tok = "1" THEN Parsed(i + 1, Value("num", tok, <<>>))
    ELSE IF tok = "null" THEN Parsed(i + 1, Value("null", tok, <<>>))
    ELSE IF tok \in StepTokens THEN Parsed(i + 1, Value("step", tok, <<>>))
    ELSE IF tok = "[" THEN
        IF i + 1 <= Len(toks) /\ toks[i + 1] = "]"
        THEN Parsed(i + 2, Value("arr", "", <<>>))
        ELSE ParseElements(toks, i + 1, <<>>)
    ELSE IF tok = "{" THEN
        IF i + 1 <= Len(toks) /\ toks[i + 1] = "}"
        THEN Parsed(i + 2, Value("obj", "", <<>>))
        ELSE ParseMembers(toks, i + 1, <<>>)
    ELSE NoParse

\* The elements of an array from token i on, items being those read so far.
ParseElements(toks, i, items) ==
    LET v == ParseValue(toks, i) IN
    IF ~v.ok \/ v.next > Len(toks) THEN NoParse
    ELSE LET all == Append(items, v.val) IN
    IF toks[v.next] = "]" THEN Parsed(v.next + 1, Value("arr", "", all))
    ELSE IF toks[v.next] # "," THEN NoParse
    ELSE IF v.next + 1 <= Len(toks)
            /\ after_comma_closes(toks[v.next + 1], "]")
    THEN Parsed(v.next + 2, Value("arr", "", all))
    ELSE ParseElements(toks, v.next + 1, all)

\* The members of an object from token i on; items holds a pair of key and
\* value for each member read so far.
ParseMembers(toks, i, items) ==
    IF i + 1 > Len(toks) \/ toks[i] \notin StringTokens \/ toks[i + 1] # ":"
    THEN NoParse
    ELSE LET v == ParseValue(toks, i + 2) IN
    IF ~v.ok \/ v.next > Len(toks) THEN NoParse
    ELSE LET all == Append(items, [key |-> toks[i], val |-> v.val]) IN
    IF toks[v.next] = "}" THEN Parsed(v.next + 1, Value("obj", "", all))
    ELSE IF toks[v.next] # "," THEN NoParse
    ELSE IF v.next + 1 <= Len(toks)
            /\ after_comma_closes(toks[v.next + 1], "}")
    THEN Parsed(v.next + 2, Value("obj", "", all))
    ELSE ParseMembers(toks, v.next + 1, all)

\* main.py:350: json.loads: one value that takes the whole text, or
\* JSONDecodeError.
json_loads(json_str) ==
    LET v == ParseValue(json_str, 1) IN
    IF v.ok /\ v.next = Len(json_str) + 1 THEN v ELSE NoParse

\* The value a dict made of the members holds under key, the last member of
\* that key winning; kind "none" when the key is absent.
Lookup(members, key) ==
    LET at == {k \in 1..Len(members) : members[k].key = key} IN
    IF at = {} THEN Value("none", "", <<>>) ELSE members[SetMax(at)].val

\* The step object a step token stands for.
StepOf(tok) ==
    Plan("create_file", Some(PathStr(FALSE, <<"a">>)),
         IF tok = "STEP_OK" THEN Some("c") ELSE Some(""),
         None, None, None, None)

\* main.py:351: ChatResponse(**parsed_data) for parsed data that is a dict:
\* explanation must be a string, plan a list of objects that are steps, and
\* then check_fields runs.  A dict with other keys, as a step object is, has
\* neither.
ChatResponse(parsed_data) ==
    IF parsed_data.kind = "step" THEN InvalidResponse
    ELSE
    LET explanation == Lookup(parsed_data.items, "explanation")
        plan == Lookup(parsed_data.items, "plan")
    IN  IF \/ explanation.kind # "str"
           \/ plan.kind # "arr"
           \/ \E k \in 1..Len(plan.items) : plan.items[k].kind # "step"
        THEN InvalidResponse
        ELSE check_fields([explanation |-> explanation.str,
                           plan |-> [k \in 1..Len(plan.items) |->
                                        StepOf(plan.items[k].str)]])

parse_and_validate_model_validate(json_str) ==
    LET parsed_data == json_loads(json_str) IN
    IF ~parsed_data.ok THEN "invalid_json"
    ELSE IF parsed_data.val.kind \notin {"obj", "step"} THEN "schema_violation"
    ELSE IF ~ChatResponse(parsed_data.val).ok THEN "schema_violation"
    ELSE "plan"

\* main.py:349-370: what the reply is to the handler, given its extracted
\* text: json.loads, then ChatResponse(**parsed_data), which raises TypeError
\* when the parsed data is no dict.
parse_and_validate(json_str) ==
    LET parsed_data == json_loads(json_str) IN
    IF ~parsed_data.ok THEN "invalid_json"
    ELSE IF parsed_data.val.kind \notin {"obj", "step"} THEN "not_object"
    ELSE IF ~ChatResponse(parsed_data.val).ok THEN "schema_violation"
    ELSE "plan"

\* The texts: these, and what a few edits make of them.
BaseTexts ==
    { <<"{", "explanation", ":", "s", ",", "plan", ":", "[", "STEP_OK", "]", "}">>,
      <<"{", "explanation", ":", "s", "}">>,
      <<"[", "STEP_OK", "]">>,
      <<"1">>,
      <<"s">>,
      <<"null">> }

EditTokens == {",", "]", "}", "?", "1", "STEP_BAD"}

\* text with one token inserted, deleted or replaced.
OneEdit(text) ==
    {SubSeq(text, 1, i - 1) \o <<t>> \o SubSeq(text, i, Len(text)) :
        i \in 1..(Len(text) + 1), t \in EditTokens}
    \cup {SubSeq(text, 1, i - 1) \o SubSeq(text, i + 1, Len(text)) :
             i \in 1..Len(text)}
    \cup {[text EXCEPT ![i] = t] : i \in 1..Len(text), t \in EditTokens}

MaxEdits == 1

RECURSIVE Edited(_)
Edited(n) ==
    IF n = 0 THEN BaseTexts
    ELSE LET fewer == Edited(n - 1) IN
         fewer \cup UNION {OneEdit(text) : text \in fewer}

NoOutcome == [done |-> FALSE, reply |-> "none", status |-> 0, detail |-> ""]

\* The extracted text is parsed and validated and the request answered.
Parse ==
    /\ ~tout.done
    /\ LET reply == parse_and_validate(tin)
           out == outer_except(Pipeline(reply))
       IN  tout' = [done |-> TRUE, reply |-> reply,
                    status |-> IF Pipeline(reply).type = "return"
                               THEN Pipeline(reply).status ELSE out.status,
                    detail |-> IF Pipeline(reply).type = "return"
                               THEN Pipeline(reply).detail ELSE out.detail]
    /\ UNCHANGED <<now, rate_limit_store, log, req, arrivals, vin, vout, tin>>

InitParse ==
    /\ now = 0
    /\ rate_limit_store = [c \in Clients |-> <<>>]
    /\ log = [c \in Clients |-> <<>>]
    /\ req = [r \in ReqIds |-> Idle]
    /\ arrivals = 0
    /\ vin = DefaultFields
    /\ vout = NoResult
    /\ tin \in Edited(MaxEdits)
    /\ tout = NoOutcome

NextParse == Parse

SpecParse == InitParse /\ [][NextParse]_vars

\* ------------------------------------------------------------------------
\* Properties of the rate limiter
\* ------------------------------------------------------------------------

\* Call i of client c starts a fresh window: every call admitted before it is
\* at least RATE_LIMIT_WINDOW old when call i is made.
FreshStart(c, i) ==
    \A j \in 1..(i - 1) :
        log[c][j].ok => log[c][i].t - log[c][j].t >= RATE_LIMIT_WINDOW

\* C1: for any client, among calls that all fall inside one window (counted
\* from a call that finds no earlier admitted call inside its window), the
\* first RATE_LIMIT_MAX_REQUESTS calls are admitted and every further call
\* inside that window is rejected.
C1_WindowQuota ==
    \A c \in Clients : \A i \in 1..Len(log[c]) : \A k \in i..Len(log[c]) :
        (FreshStart(c, i) /\ log[c][k].t - log[c][i].t < RATE_LIMIT_WINDOW)
            => (log[c][k].ok <=> (k - i + 1 <= RATE_LIMIT_MAX_REQUESTS))

\* C1 witness: a client made max_requests + 1 calls inside one window, the
\* last of them rejected, the ones before admitted.
C1_Witness ==
    \E c \in Clients :
        /\ Len(log[c]) = RATE_LIMIT_MAX_REQUESTS + 1
        /\ log[c][Len(log[c])].t - log[c][1].t < RATE_LIMIT_WINDOW
        /\ log[c][Len(log[c])].t > log[c][1].t
        /\ ~log[c][Len(log[c])].ok
        /\ \A k \in 1..RATE_LIMIT_MAX_REQUESTS : log[c][k].ok

\* Call i of client c comes after the client was rejected, and the window has
\* elapsed since the client's most recent admitted call.
ResetAt(c, i) ==
    /\ \E j \in 1..(i - 1) : ~log[c][j].ok
    /\ FreshStart(c, i)

\* C2: once a client has been rejected and RATE_LIMIT_WINDOW has elapsed since
\* its most recent admitted call, its next RATE_LIMIT_MAX_REQUESTS calls are
\* all admitted, whatever number of rejected calls came in between.
C2_QuotaResets ==
    \A c \in Clients : \A i \in 1..Len(log[c]) :
        ResetAt(c, i) =>
            \A k \in i..Len(log[c]) :
                (k - i + 1 <= RATE_LIMIT_MAX_REQUESTS) => log[c][k].ok

\* C2 witness: a client exhausted its quota, was rejected, waited exactly one
\* window after its last admitted call, and then made max_requests calls.
C2_Witness ==
    \E c \in Clients : \E i \in 1..Len(log[c]) :
        /\ ResetAt(c, i)
        /\ \E j \in 1..(i - 1) :
              log[c][j].ok /\ log[c][i].t - log[c][j].t = RATE_LIMIT_WINDOW
        /\ Len(log[c]) = i + RATE_LIMIT_MAX_REQUESTS - 1
        /\ \A k \in i..Len(log[c]) : log[c][k].ok

\* Client c has just been answered "rejected" by the limiter in this step.
RejectedStep(c) ==
    /\ Len(log'[c]) = Len(log[c]) + 1
    /\ ~log'[c][Len(log'[c])].ok

\* C3: a call that returns false records nothing: afterwards the client's
\* stored timestamps are exactly those stored before the call that were still
\* inside the window, and none of them is the time of the rejected call
\* unless it was stored before.
C3_RejectRecordsNothing ==
    [][\A c \in Clients :
          RejectedStep(c) =>
              /\ rate_limit_store'[c] =
                    SelectSeq(rate_limit_store[c],
                              LAMBDA ts : now - ts < RATE_LIMIT_WINDOW)
              /\ Len(rate_limit_store'[c]) <= Len(rate_limit_store[c])]_vars

\* C3 witness: a client was rejected at a later time than its first call, and
\* its store still holds exactly the max_requests admitted timestamps.
C3_Witness ==
    \E c \in Clients : \E k \in 1..Len(log[c]) :
        /\ ~log[c][k].ok
        /\ log[c][k].t > log[c][1].t
        /\ Len(rate_limit_store[c]) = RATE_LIMIT_MAX_REQUESTS

\* ------------------------------------------------------------------------
\* Properties of the /chat endpoint
\* ------------------------------------------------------------------------

\* The number of calls of client c that were admitted inside the window that
\* ends now, counted on the history of calls, not on the store.
AdmittedInWindow(c) ==
    Cardinality({j \in 1..Len(log[c]) :
                    log[c][j].ok /\ now - log[c][j].t < RATE_LIMIT_WINDOW})

\* C4: under any interleaving of concurrent /chat requests, a limiter check
\* for one client leaves every other client's timestamps unchanged; whether
\* the client is admitted depends only on its own admitted calls inside the
\* window; and the calls admitted inside a window never exceed the quota, so
\* two concurrent requests of a client cannot both take its last free slot.
C4_ClientsIndependent ==
    [][\A c \in Clients :
          /\ log'[c] = log[c] => rate_limit_store'[c] = rate_limit_store[c]
          /\ log'[c] # log[c] =>
                /\ \A b \in Clients \ {c} :
                      /\ rate_limit_store'[b] = rate_limit_store[b]
                      /\ log'[b] = log[b]
                /\ log'[c][Len(log'[c])].ok
                      <=> (AdmittedInWindow(c) < RATE_LIMIT_MAX_REQUESTS)
                /\ AdmittedInWindow(c)' <= RATE_LIMIT_MAX_REQUESTS]_vars

\* C4 witness: two requests of one client are in flight together; one holds
\* the client's last slot and waits for its provider call, the other one was
\* turned away at the same instant; the other client's store is untouched.
C4_Witness ==
    \E r1 \in ReqIds, r2 \in ReqIds :
        /\ r1 # r2
        /\ req[r1].client = req[r2].client
        /\ req[r1].pc = "await" /\ req[r1].allowed
        /\ req[r2].pc = "done" /\ req[r2].status = 429
        /\ LET h == log[req[r1].client] IN
           /\ Len(h) = RATE_LIMIT_MAX_REQUESTS + 1
           /\ h[Len(h)].t = h[Len(h) - 1].t
           /\ h[Len(h) - 1].ok /\ ~h[Len(h)].ok
        /\ \A b \in Clients \ {req[r1].client} : rate_limit_store[b] = <<>>

\* The request handled under id r was turned away by one of the gates.
GateRejected(r) ==
    \/ req[r].status \in {429, 413, 400, 422}
    \/ req[r].checked /\ ~req[r].allowed
    \/ /\ req[r].pc = "done"
       /\ \/ Bodies[req[r].body].size > MAX_REQUEST_SIZE
          \/ Bodies[req[r].body].json # "object"
          \/ ~ChatRequest(Bodies[req[r].body].fields).ok

\* C5: for a request rejected by the rate limit (429), the size cap (413) or
\* request validation, no provider call is ever made or queued: the gates run
\* before the dispatch and each one ends the request.
C5_RejectedNeverDispatched ==
    \A r \in ReqIds :
        GateRejected(r) =>
            /\ req[r].calls = 0
            /\ req[r].call = "none"
            /\ req[r].messages = <<>>
            /\ req[r].ends = <<>>

\* C5 witness: one request was answered 413 and another 429, neither with a
\* provider call.
C5_Witness ==
    \E r1 \in ReqIds, r2 \in ReqIds :
        /\ req[r1].pc = "done" /\ req[r1].status = 413 /\ req[r1].calls = 0
        /\ req[r2].pc = "done" /\ req[r2].status = 429 /\ req[r2].calls = 0

\* C6: a request of a client under its rate limit whose body is larger than
\* MAX_REQUEST_SIZE is answered 413, whether the body is valid JSON, invalid
\* JSON or JSON with invalid fields.
C6_OversizedIs413 ==
    \A r \in ReqIds :
        (/\ req[r].pc = "done"
         /\ req[r].under
         /\ Bodies[req[r].body].size > MAX_REQUEST_SIZE)
            => req[r].status = 413

\* C8: a request (of a client under its limit, with a body within the size
\* cap) whose body fails ChatRequest validation is answered 400 and is never
\* dispatched.
C8_InvalidIs400 ==
    \A r \in ReqIds :
        (/\ req[r].pc = "done"
         /\ req[r].under
         /\ Bodies[req[r].body].size <= MAX_REQUEST_SIZE
         /\ Bodies[req[r].body].json = "object"
         /\ ~ChatRequest(Bodies[req[r].body].fields).ok)
            => (req[r].status = 400 /\ req[r].calls = 0)

\* C9: the messages passed to the provider are exactly the messages built:
\* the system instructions, one message per history entry in order, then the
\* user turn wrapping the prompt.
C9_SentIsBuilt ==
    \A r \in ReqIds :
        req[r].calls > 0 =>
            LET h == Bodies[req[r].body].fields.conversation_history
                sent == req[r].sent
            IN
            /\ sent = req[r].messages
            /\ Len(sent) = Len(h) + 2
            /\ sent[1] = SystemMessage(SYSTEM_INSTRUCTIONS)
            /\ \A i \in 1..Len(h) : sent[i + 1] = HistoryMessage(h[i])

\* The request handled under id r reached the dispatch.
Dispatched(r) == req[r].call # "none"

\* C10: a request that reaches the dispatch ends in exactly one of SUCCESS,
\* TIMEOUT and PROVIDER_ERROR; the response pipeline runs only after SUCCESS,
\* and once; every request produces exactly one HTTP outcome.
C10_OneOutcome ==
    \A r \in ReqIds :
        /\ req[r].responses <= 1
        /\ req[r].pc = "done" <=> req[r].responses = 1
        /\ Len(req[r].ends) <= 1
        /\ req[r].ends # <<>> => Dispatched(r) /\ req[r].pc = "done"
        /\ (req[r].pc = "done" /\ Dispatched(r)) =>
              /\ Len(req[r].ends) = 1
              /\ req[r].ends[1] \in {"SUCCESS", "TIMEOUT", "PROVIDER_ERROR"}
        /\ req[r].pipeline > 0 =>
              /\ req[r].pipeline = 1
              /\ req[r].ends = <<"SUCCESS">>
        /\ req[r].ends = <<"SUCCESS">> =>
              req[r].pipeline = 1 /\ req[r].status \in {200, 500}
        /\ req[r].ends = <<"TIMEOUT">> => req[r].status = 504
        /\ req[r].ends = <<"PROVIDER_ERROR">> => req[r].status = 500

\* C10 witness: one request timed out and its call returned afterwards
\* without the pipeline running; another one succeeded through the pipeline.
C10_Witness ==
    \E r1 \in ReqIds, r2 \in ReqIds :
        /\ req[r1].ends = <<"TIMEOUT">> /\ req[r1].call = "returned"
        /\ req[r1].pipeline = 0 /\ req[r1].status = 504
        /\ req[r2].ends = <<"SUCCESS">> /\ req[r2].status = 200

\* ------------------------------------------------------------------------
\* Properties of ChatRequest validation
\* ------------------------------------------------------------------------

\* The fields other than the prompt are valid.
OtherFieldsOk(fields) ==
    /\ InRange(fields.temperature, 0, 2)
    /\ InRange(fields.max_tokens, 1, MAX_TOKENS_LIMIT)
    /\ InRange(fields.top_p, 0, 1)
    /\ HistoryOk(fields.conversation_history)

\* C7: validation accepts every prompt whose trimmed length is between 1 and
\* MAX_PROMPT_LENGTH and which holds no rejection phrase, rejects every
\* prompt that is empty after trimming, and the accepted request's prompt is
\* the trimmed prompt.
C7_AcceptsByTrimmedLength ==
    vout.done =>
        LET t == strip(vin.prompt) IN
        /\ t = <<>> => ~vout.ok
        /\ (/\ Len(t) >= 1
            /\ Len(t) <= MAX_PROMPT_LENGTH
            /\ ~\E pattern \in suspicious_patterns : Contains(lower(t), pattern)
            /\ OtherFieldsOk(vin))
              => (vout.ok /\ vout.prompt = t)


\* ------------------------------------------------------------------------
\* Properties of the provider call: timeout, concurrency, failures
\* ------------------------------------------------------------------------

\* Request r has been answered 504.
TimedOut(r) == req[r].pc = "done" /\ req[r].status = 504

\* C11: a request whose provider call does not finish within LLM_TIMEOUT is
\* answered 504 at that point, while the call is still unfinished (the answer
\* does not wait for it); and from then on nothing the call does changes the
\* outcome: the status stays 504, the response pipeline never runs on the
\* late reply, and no second response is sent.
C11_TimeoutIsFinal ==
    [][\A r \in ReqIds :
          /\ (req[r].pc = "await" /\ req'[r].pc = "done" /\ req'[r].status = 504)
                => /\ now = req[r].deadline
                   /\ req[r].call \in {"queued", "running"}
                   /\ req'[r].call \in {"cancelled", "running"}
                   /\ req'[r].detail = "Request timed out"
          /\ (TimedOut(r) /\ req'[r].pc = "done")
                => /\ req'[r].status = 504
                   /\ req'[r].detail = "Request timed out"
                   /\ req'[r].pipeline = 0
                   /\ req'[r].responses = 1
                   /\ req'[r].ends = <<"TIMEOUT">>]_vars

\* A request was answered 504 and its provider call returned afterwards.
C11_Witness ==
    \E r \in ReqIds : TimedOut(r) /\ req[r].call = "returned"

\* Request r is blocked in its provider call: the handler waits and a worker
\* is inside client.complete.
Blocked(r) == req[r].pc = "await" /\ req[r].call = "running"

Ended(r, kind) == req[r].pc = "done" /\ req[r].ends = <<kind>>

\* C13: a provider failure that is not a timeout ends the request with a 500
\* whose detail is a fixed text: the generic message when the call raised
\* (whatever the message of the exception) or the reply has no content, and
\* the fixed message of the extraction failure when the reply has no
\* choices; and the generic 500 never replaces an error already mapped: a
\* rejected request keeps 429, 413 or 400 and a timed-out one keeps 504, so
\* that a 500 is only ever given after the call has ended.
C13_FailureIsGeneric500 ==
    \A r \in ReqIds :
        /\ Ended(r, "PROVIDER_ERROR")
              => /\ req[r].status = 500
                 /\ req[r].detail = GenericDetail
                 /\ req[r].reply \in ProviderErrors
        /\ (Ended(r, "SUCCESS") /\ req[r].reply = "no_content")
              => (req[r].status = 500 /\ req[r].detail = GenericDetail)
        /\ (Ended(r, "SUCCESS") /\ req[r].reply = "no_choices")
              => /\ req[r].status = 500
                 /\ req[r].detail = "Failed to process model response"
        /\ Ended(r, "TIMEOUT") => req[r].status = 504
        /\ (req[r].pc = "done" /\ req[r].checked /\ ~req[r].allowed)
              => req[r].status = 429
        /\ (req[r].pc = "done" /\ req[r].ends = <<>>)
              => req[r].status \in {422, 429, 413, 400}

\* A request whose provider call raised has been answered.
C13_Witness ==
    \E r \in ReqIds : Ended(r, "PROVIDER_ERROR") /\ req[r].reply = "auth"

\* ------------------------------------------------------------------------
\* Dispatch to providers
\* ------------------------------------------------------------------------

\* What the registry resolves from the body of request r.
Resolved(r) ==
    LET b == Bodies[req[r].body] IN get_provider(b.provider, b.api_key, b.endpoint)

\* C14: a request naming a provider is dispatched to the adapter the registry
\* resolves from its provider id, api key and endpoint: a call is made only
\* when the registry resolves one, it goes to that adapter, and so two
\* requests naming different registered providers go to different adapters
\* and a request naming an unregistered provider causes no call.
C14_DispatchFollowsRegistry ==
    \A r \in ReqIds :
        (req[r].body \in ProviderBodyIds /\ req[r].call # "none")
            => /\ Resolved(r).ok
               /\ req[r].adapter = Resolved(r).adapter

\* ------------------------------------------------------------------------
\* Properties of the extraction
\* ------------------------------------------------------------------------

\* The positions of text where three backticks stand.
Fences(text) == {i \in 1..Len(text) : FenceAt(text, i)}

\* text contains a fenced block: an opening fence and, after it, a closing one.
HasFencedBlock(text) ==
    \E i, k \in Fences(text) : k >= i + 3

\* The first fenced block of text opens at the first fence and closes at the
\* first fence after that one.
Opening(text) == SetMin(Fences(text))
Closing(text) == SetMin({k \in Fences(text) : k >= Opening(text) + 3})

\* s without the tag json, when s begins with it.
Untagged(s) == IF s # <<>> /\ Head(s) = "j" THEN Tail(s) ELSE s

\* What stands between the fences of the first fenced block, without the tag
\* and trimmed.
InnerContent(text) ==
    strip(Untagged(SubSeq(text, Opening(text) + 3, Closing(text) - 1)))

\* C15: the extraction returns the inner content of the first fenced block
\* of the text when there is one, whether tagged json or not, whatever
\* stands around the block and whatever fences follow it; and the trimmed
\* full text when the text contains no fenced block.
C15_ExtractFirstFence ==
    tout.done =>
        tout.json_str = IF HasFencedBlock(tin) THEN InnerContent(tin)
                        ELSE strip(tin)

\* A text with prose before a tagged block whose content is not empty and
\* with another fence after the block has been extracted.
C15_Witness ==
    /\ tout.done
    /\ HasFencedBlock(tin)
    /\ Opening(tin) > 1
    /\ tin[Opening(tin) + 3] = "j"
    /\ \E k \in Fences(tin) : k >= Closing(tin) + 3
    /\ tout.json_str = <<"x">>

\* C16: the extraction is idempotent on unfenced text: applied to its own
\* result on a text without a fenced block it returns that result.
C16_ExtractIdempotent ==
    (tout.done /\ ~HasFencedBlock(tin)) => tout.again = tout.json_str

\* A text without a fenced block, with blanks around what it holds, has been
\* extracted twice.
C16_Witness ==
    /\ tout.done
    /\ ~HasFencedBlock(tin)
    /\ Len(tin) >= 3
    /\ Head(tin) = " "
    /\ tin[Len(tin)] = " "
    /\ tout.again # <<>>

\* ------------------------------------------------------------------------
\* Properties of parsing and of the validation of the response
\* ------------------------------------------------------------------------

RECURSIVE IsValue(_, _, _), IsElements(_, _, _), IsMembers(_, _, _)

\* Tokens i to j of toks are one JSON value.
IsValue(toks, i, j) ==
    \/ i = j /\ toks[i] \in StringTokens \cup StepTokens \cup {"1", "null"}
    \/ /\ i < j
       /\ toks[i] = "["
       /\ toks[j] = "]"
       /\ (j = i + 1 \/ IsElements(toks, i + 1, j - 1))
    \/ /\ i < j
       /\ toks[i] = "{"
       /\ toks[j] = "}"
       /\ (j = i + 1 \/ IsMembers(toks, i + 1, j - 1))

\* Tokens i to j are values separated by commas.
IsElements(toks, i, j) ==
    /\ i <= j
    /\ \/ IsValue(toks, i, j)
       \/ \E k \in (i + 1)..(j - 1) :
             toks[k] = "," /\ IsValue(toks, i, k - 1) /\ IsElements(toks, k + 1, j)

\* Tokens i to j are one member: a string, a colon, a value.
IsMember(toks, i, j) ==
    /\ i + 2 <= j
    /\ toks[i] \in StringTokens
    /\ toks[i + 1] = ":"
    /\ IsValue(toks, i + 2, j)

\* Tokens i to j are members separated by commas.
IsMembers(toks, i, j) ==
    /\ i <= j
    /\ \/ IsMember(toks, i, j)
       \/ \E k \in (i + 1)..(j - 1) :
             toks[k] = "," /\ IsMember(toks, i, k - 1) /\ IsMembers(toks, k + 1, j)

\* The text is valid JSON by the grammar: one value, nothing else.
ValidJSON(toks) == toks # <<>> /\ IsValue(toks, 1, Len(toks))

InvalidJsonDetail == "The AI returned invalid JSON. Please try again."

ContentViolation(step) ==
    \/ /\ step.action \in {"create_file", "update_file"}
       /\ step.content \in {None, Some("")}
    \/ /\ step.action = "patch_file"
       /\ step.old_content \in {None, Some("")}
       /\ step.new_content \in {None, Some("")}

\* C18: the validation rejects a plan of well-typed steps if and only if
\* some step violates the content invariant of its action; so one violating
\* step anywhere rejects the whole response, and steps of other actions,
\* and steps whose content is not empty, do not.
C18_RejectsIffContentViolation ==
    tout.done =>
        (~tout.ok <=> \E i \in 1..Len(tin.plan) : ContentViolation(tin.plan[i]))

\* A plan whose first step is fine and whose second step is a create_file
\* with empty content has been rejected.
C18_Witness ==
    /\ tout.done
    /\ ~tout.ok
    /\ Len(tin.plan) = 2
    /\ ~ContentViolation(tin.plan[1])
    /\ tin.plan[2].action = "create_file"
    /\ tin.plan[2].content = Some("")

\* C19: the validation rejects every plan with a rename_dir step that lacks
\* old_path or new_path, and accepts a rename_dir step with both set to
\* relative strings.
C19_RenameNeedsBothPaths ==
    tout.done =>
        /\ (\E i \in 1..Len(tin.plan) :
                /\ tin.plan[i].action = "rename_dir"
                /\ (tin.plan[i].old_path = None \/ tin.plan[i].new_path = None))
              => ~tout.ok
        /\ (/\ Len(tin.plan) = 1
            /\ tin.plan[1].action = "rename_dir"
            /\ tin.plan[1].old_path = Some(PathStr(FALSE, <<"a">>))
            /\ tin.plan[1].new_path = Some(PathStr(FALSE, <<"a">>)))
              => tout.ok

\* The absolute path whose components are parts, resolved.
AbsoluteOf(path) ==
    IF path.abs THEN Resolve(<<>>, path.parts)
    ELSE Resolve(<<>>, cwd \o path.parts)

\* C20: in every response the validation returns no step has an absolute
\* path: a path that was absolute has become a relative path that leads
\* from the working directory to the same place, and every other path is
\* as it was.
C20_PathsRelative ==
    (tout.done /\ tout.ok) =>
        \A i \in 1..Len(tin.plan) :
            LET before == tin.plan[i].path
                after == tout.plan[i].path
            IN  IF before # None /\ before[1].abs
                THEN /\ after # None
                     /\ ~after[1].abs
                     /\ after[1].parts # <<>>
                     /\ AbsoluteOf(after[1]) = AbsoluteOf(before[1])
                ELSE after = before

\* A plan with a step whose absolute path lies outside the working directory
\* has been returned.
C20_Witness ==
    /\ tout.done
    /\ tout.ok
    /\ \E i \in 1..Len(tin.plan) :
          /\ tin.plan[i].path = Some(PathStr(TRUE, <<"a", "w">>))
          /\ tout.plan[i].path = Some(PathStr(FALSE, <<"..", "a", "w">>))

\* The names under which the aliased fields of a step go on the wire, and
\* the names of these fields inside the service.
ExternalNames == {"oldContent", "newContent", "oldPath", "newPath"}
InternalNames == {"old_content", "new_content", "old_path", "new_path"}

\* C21: for every valid response, what is serialized parses and validates
\* again, and the plan that comes back equals the plan of the response
\* field for field, same steps in the same order; each serialized step
\* carries the external names oldContent, newContent, oldPath and newPath
\* and none of the internal names.
C21_RoundTrip ==
    (tout.done /\ tout.ok) =>
        /\ tout.wire.ok
        /\ tout.back.ok
        /\ tout.back.plan = tout.plan
        /\ Len(tout.wire.plan) = Len(tout.plan)
        /\ \A i \in 1..Len(tout.wire.plan) :
              /\ ExternalNames \subseteq DOMAIN tout.wire.plan[i]
              /\ InternalNames \cap DOMAIN tout.wire.plan[i] = {}
              /\ tout.wire.plan[i].oldContent = tout.plan[i].old_content
              /\ tout.wire.plan[i].newContent = tout.plan[i].new_content
              /\ tout.wire.plan[i].oldPath = tout.plan[i].old_path
              /\ tout.wire.plan[i].newPath = tout.plan[i].new_path

\* A valid plan of a patch_file step with only new_content and a rename_dir
\* step with both paths has made the round trip.
C21_Witness ==
    /\ tout.done
    /\ tout.ok
    /\ Len(tout.plan) = 2
    /\ tout.plan[1].action = "patch_file"
    /\ tout.plan[1].old_content = None
    /\ tout.plan[1].new_content = Some("c")
    /\ tout.plan[2].action = "rename_dir"
    /\ tout.plan[2].old_path = Some(PathStr(TRUE, <<"w", "a">>))
    /\ tout.plan[2].new_path = Some(PathStr(FALSE, <<"a">>))
    /\ tout.back.ok

\* The ids the registry knows, and the one of local inference.
Registered == {"openai", "anthropic", "openrouter", "ollama", "azure"}
LocalInference == "ollama"

\* C22: get_provider fails with the unknown-provider error for every id that
\* is not registered, whatever the key; fails with the missing-credential
\* error for every registered id other than local inference when the key is
\* absent or empty; returns an instance for local inference without any
\* key; and returns an instance for every registered id with a key that is
\* not empty, whatever the format of the key.
C22_RegistryErrors ==
    tout.done =>
        LET id == tin.provider_id
            no_key == tin.api_key = None \/ tin.api_key = Some(Key(<<>>, 0))
        IN  /\ id \notin Registered
                  => (~tout.result.ok /\ tout.result.error = "Unknown provider")
            /\ (id \in Registered \ {LocalInference} /\ no_key)
                  => (~tout.result.ok /\ tout.result.error = "API key required")
            /\ id = LocalInference => tout.result.ok
            /\ (id \in Registered /\ ~no_key)
                  => (tout.result.ok /\ tout.result.adapter = providers[id])

\* get_provider has returned the Anthropic adapter for a key that is not of
\* the format of Anthropic keys.
C22_Witness ==
    /\ tout.done
    /\ tin.provider_id = "anthropic"
    /\ tin.api_key = Some(Key(<<"k">>, 3))
    /\ ~validate_key("anthropic", tin.api_key[1])
    /\ tout.result.ok

\* C23: the response of /health does not depend on the value of the
\* credential: two services with the same model name and any two credentials
\* that are not empty answer the same, with token_configured true, and
\* neither text field of the response is the credential.
C23_HealthHidesCredential ==
    tout.done =>
        /\ tout.first = tout.second
        /\ tout.first.token_configured = TRUE
        /\ tin.first \notin {tout.first.status, tout.first.model}
        /\ tin.second \notin {tout.second.status, tout.second.model}

\* /health has been asked of two services with different credentials.
C23_Witness ==
    /\ tout.done
    /\ tin.first = "ghp_a"
    /\ tin.second = "github_pat_c"
    /\ tout.second.status = "healthy"

IsSystem(msg) == msg.role = "system"
NotSystem(msg) == msg.role # "system"

\* C24: the messages array that AnthropicProvider.chat sends holds no
\* message of role system: it is the messages given without the system
\* ones, in their order, role and content unchanged; and the content of the
\* system message (of the last one, when several are given) is sent in the
\* system field, which is absent when there is no system message or its
\* content is empty.
C24_SystemSentApart ==
    tout.done =>
        LET systems == SelectSeq(tin, IsSystem) IN
        /\ \A i \in 1..Len(tout.messages) : tout.messages[i].role # "system"
        /\ tout.messages = SelectSeq(tin, NotSystem)
        /\ tout.system =
              IF systems # <<>> /\ systems[Len(systems)].content # ""
              THEN Some(systems[Len(systems)].content)
              ELSE None

\* A system message given between two other messages has been sent in the
\* system field.
C24_Witness ==
    /\ tout.done
    /\ Len(tin) = 3
    /\ tin[1].role = "user"
    /\ tin[2] = [role |-> "system", content |-> "a"]
    /\ tin[3].role = "assistant"
    /\ tout.system = Some("a")
    /\ Len(tout.messages) = 2

\* ------------------------------------------------------------------------
\* The sliding window and the order of the gates
\* ------------------------------------------------------------------------

\* The calls of client c admitted in the trailing interval (t - window, t].
AdmittedTrailing(c, t) ==
    {j \in 1..Len(log[c]) :
        /\ log[c][j].ok
        /\ t - RATE_LIMIT_WINDOW < log[c][j].t
        /\ log[c][j].t <= t}

\* C25: in every reachable state and for every client the stored list holds
\* at most RATE_LIMIT_MAX_REQUESTS timestamps in non-decreasing order, and
\* for every instant t at most RATE_LIMIT_MAX_REQUESTS calls of the client
\* were admitted in the trailing interval (t - window, t], wherever that
\* interval begins.
C25_SlidingWindow ==
    \A c \in Clients :
        /\ Len(rate_limit_store[c]) <= RATE_LIMIT_MAX_REQUESTS
        /\ \A i, j \in 1..Len(rate_limit_store[c]) :
              i <= j => rate_limit_store[c][i] <= rate_limit_store[c][j]
        /\ \A t \in 0..(now + RATE_LIMIT_WINDOW) :
              Cardinality(AdmittedTrailing(c, t)) <= RATE_LIMIT_MAX_REQUESTS

\* A trailing interval is full whose first admitted call did not start a
\* fresh window: an earlier call was admitted less than a window before it.
C25_Witness ==
    \E c \in Clients : \E t \in 0..now :
        /\ Cardinality(AdmittedTrailing(c, t)) = RATE_LIMIT_MAX_REQUESTS
        /\ \E i \in AdmittedTrailing(c, t) :
              /\ \A j \in AdmittedTrailing(c, t) : i <= j
              /\ ~FreshStart(c, i)
\* The request handled under id r has passed the point where the handler
\* checks the rate limit.
Handled(r) == req[r].pc \notin {"idle", "received"}

\* The rate-limit check admitted request r and its timestamp was recorded.
QuotaConsumed(r) ==
    \E j \in 1..Len(log[req[r].client]) : log[req[r].client][j].ok

\* C26: the rate-limit check is the first gate: every request that it admits
\* has a timestamp recorded whatever the request's later outcome (413, 400,
\* 504 or 500), and every request of a client that is over its quota is
\* answered 429, also when its body is oversized or invalid.
C26_RateLimitFirst ==
    \A r \in ReqIds :
        Handled(r) =>
            /\ req[r].allowed => QuotaConsumed(r)
            /\ ~req[r].under => req[r].status = 429

\* ------------------------------------------------------------------------
\* The worker pool behind asyncio.to_thread
\* ------------------------------------------------------------------------

\* The number of worker threads of the executor that asyncio.to_thread
\* submits to (main.py:313), scaled down so that the requests in flight
\* can outnumber the workers.
PoolSize == 1

Busy_awaited_only ==
    Cardinality({r \in ReqIds : req[r].call = "running" /\ req[r].pc = "await"})

\* main.py:312-322: the workers inside client.complete.  wait_for cancels the
\* awaiting task on timeout, not the thread: a call that a worker has started
\* keeps its worker until client.complete returns or raises.
Busy == Cardinality({r \in ReqIds : req[r].call = "running"})

\* main.py:313-314: a queued call starts when a worker of the pool is idle.
WorkerStartPool(r) ==
    /\ Busy < PoolSize
    /\ WorkerStart(r)

\* main.py:255-322: the handler runs up to the wait; a request is taken up
\* only while its timeout falls inside the time modelled.
chat_begin_pool(r) ==
    /\ now + LLM_TIMEOUT <= MaxTime
    /\ chat_begin(r)

NextPool ==
    \/ Tick
    \/ \E r \in ReqIds :
          \/ \E c \in Clients : Arrive(r, c, 1)
          \/ chat_begin_pool(r)
          \/ WorkerStartPool(r)
          \/ ProviderReturn(r)
          \/ chat_resume(r, "plan")
          \/ Timeout(r)

\* Time passes, a timer that has expired fires, and a handler whose call has
\* returned is resumed by the event loop.
FairPool ==
    /\ WF_vars(Tick)
    /\ \A r \in ReqIds : WF_vars(Timeout(r)) /\ WF_vars(chat_resume(r, "plan"))

SpecPool == Init /\ [][NextPool]_vars /\ FairPool

\* The calls whose request timed out while a worker was running them.
Abandoned == {r \in ReqIds : req[r].pc = "done" /\ req[r].call = "running"}

PoolExhausted == Cardinality(Abandoned) = PoolSize

\* C27: a request that times out while its call is running leaves the call
\* on its worker; while PoolSize abandoned calls have not returned no queued
\* call is started, and every request that waits for a worker then ends in
\* TIMEOUT (unless an abandoned call returns after all).
C27_AbandonedCallsExhaustPool ==
    /\ [][\A r \in ReqIds :
            (req[r].pc = "await" /\ req[r].call = "running"
                /\ req'[r].pc = "done" /\ req'[r].status = 504)
                => req'[r].call = "running"]_vars
    /\ [][PoolExhausted =>
            \A r \in ReqIds :
                req[r].call = "queued" => req'[r].call # "running"]_vars
    /\ \A r \in ReqIds :
          (PoolExhausted /\ req[r].pc = "await" /\ req[r].call = "queued")
              ~> (Ended(r, "TIMEOUT") \/ ~PoolExhausted)

\* The pool is exhausted by abandoned calls and a later request, whose call
\* no worker ever started, has ended in TIMEOUT.
C27_Witness ==
    /\ PoolExhausted
    /\ \E r \in ReqIds :
          /\ Ended(r, "TIMEOUT")
          /\ req[r].calls = 0
          /\ req[r].call = "cancelled"
          /\ \E a \in Abandoned : req[a].status = 504

\* ------------------------------------------------------------------------
\* More on the response pipeline
\* ------------------------------------------------------------------------

\* s stands in text as one piece somewhere from position a to position b.
SpanHolds(text, a, b, s) ==
    \E p \in a..(b + 1) :
        /\ p + Len(s) - 1 <= b
        /\ SubSeq(text, p, p + Len(s) - 1) = s

ReplyTexts == BaseTexts \cup UNION {OneEdit(text) : text \in BaseTexts}

\* What response.choices[0].message.content can be: no text at all, or a
\* text, given by the tokens of its extracted part.
ReplyContents == {None} \cup {Some(text) : text \in ReplyTexts}

\* main.py:331-351: what the reply is to the handler, given its content:
\* len(text) raises TypeError when the content is None.
reply_of(content) ==
    IF content = None THEN "no_content" ELSE parse_and_validate(content[1])

InitReply ==
    /\ now = 0
    /\ rate_limit_store = [c \in Clients |-> <<>>]
    /\ log = [c \in Clients |-> <<>>]
    /\ req = [r \in ReqIds |-> Idle]
    /\ arrivals = 0
    /\ vin = DefaultFields
    /\ vout = NoResult
    /\ tin \in ReplyContents
    /\ tout = <<>>

\* The requests of one client, each answered by the provider with the
\* content tin.
NextReply ==
    \E r \in ReqIds :
        \/ Arrive(r, "A", 1)
        \/ chat_begin(r)
        \/ WorkerStart(r)
        \/ ProviderReturn(r)
        \/ chat_resume(r, reply_of(tin))

SpecReply == InitReply /\ [][NextReply]_vars

\* The content is a text that is valid JSON and no object.
NonObjectJSON(content) ==
    /\ content # None
    /\ ValidJSON(content[1])
    /\ Head(content[1]) \notin {"{"} \cup StepTokens

SchemaDetail == "The AI returned an invalid response. Please try again."

\* C29: when the content of the reply is valid JSON that is no object (an
\* array, a string, a number, null) or is absent, the request ends with
\* status 500 and the generic internal-error message, not the message for a
\* schema violation and not the one for invalid JSON, and with exactly one
\* response.
C29_NonObjectIsGeneric500 ==
    \A r \in ReqIds :
        (/\ req[r].pc = "done"
         /\ req[r].pipeline = 1
         /\ (tin = None \/ NonObjectJSON(tin)))
            => /\ req[r].status = 500
               /\ req[r].detail = GenericDetail
               /\ req[r].detail \notin {SchemaDetail, InvalidJsonDetail}
               /\ req[r].responses = 1

\* A reply whose content is a JSON array has been answered.
C29_Witness ==
    \E r \in ReqIds :
        /\ req[r].pc = "done"
        /\ req[r].pipeline = 1
        /\ tin = Some(<<"[", "STEP_OK", "]">>)
        /\ req[r].status = 500
\* C30: the validation rewrites only the field path of a step: the action,
\* old_path, new_path, content, old_content, new_content, command and summary
\* of every step, the number of steps and their order are returned as they
\* were parsed, in the validated response and on the wire, so an absolute
\* old_path or new_path is returned absolute.
C30_OnlyPathRewritten ==
    (tout.done /\ tout.ok) =>
        /\ Len(tout.plan) = Len(tin.plan)
        /\ Len(tout.wire.plan) = Len(tin.plan)
        /\ \A i \in 1..Len(tin.plan) :
              LET parsed == tin.plan[i]
                  returned == tout.plan[i]
                  sent == tout.wire.plan[i]
              IN  /\ returned = [parsed EXCEPT !.path = returned.path]
                  /\ sent.action = parsed.action
                  /\ sent.content = parsed.content
                  /\ sent.oldContent = parsed.old_content
                  /\ sent.newContent = parsed.new_content
                  /\ sent.oldPath = parsed.old_path
                  /\ sent.newPath = parsed.new_path
                  /\ sent.command = parsed.command
                  /\ sent.summary = parsed.summary

\* A plan of two steps has been returned: a rename_dir step with absolute
\* old_path and new_path, sent as parsed, after a step whose absolute path
\* was rewritten.
C30_Witness ==
    /\ tout.done
    /\ tout.ok
    /\ Len(tin.plan) = 2
    /\ tin.plan[1].path # None
    /\ tin.plan[1].path[1].abs
    /\ tout.wire.plan[1].path # tin.plan[1].path
    /\ tin.plan[2].action = "rename_dir"
    /\ tout.wire.plan[2].oldPath = Some(PathStr(TRUE, <<"w", "a">>))
    /\ tout.wire.plan[2].newPath = Some(PathStr(TRUE, <<"w", "a">>))
====
